---- MODULE Spec2Model ----
(***************************************************************************)
(* Model of contracts/Debt_FHE.sol (contract DebtManagement): the          *)
(* encrypted debt ledger and its verified-decryption protocol.             *)
(*                                                                         *)
(* Every external function is one action: an Ethereum transaction (or      *)
(* eth_call) executes atomically, and a revert restores the whole storage, *)
(* the ACL of the FHE backend and the event log.  lastCall records the     *)
(* call just made (function, arguments, revert reason or "ok", returned    *)
(* data) so that outcomes can be stated.                                   *)
(*                                                                         *)
(* Strings are sequences of characters, so that bytes(s).length is Len(s). *)
(***************************************************************************)
EXTENDS Integers, Sequences, FiniteSets, TLC

\* ------------------------------------------------------------------ bounds
MaxIds == 2        \* debtIds is capped at this length

\* ------------------------------------------------------ inputs of the model
Ids == {<<>>, <<"a">>}                      \* debtId: the empty string and another
Principals == {"alice", "bob"}              \* msg.sender
Rates == {12}                               \* interestRate
Terms == {24}                               \* termMonths

\* Handles of the FHE backend: bytes32 values; 0 is the uninitialized handle.
NoHandle == 0
Handles == {0, 1, 2}

\* The plaintext the backend holds for a handle (known to the KMS only).
Plain(h) == IF h = 1 THEN 0 ELSE 1000

\* abiEncodedClearAmount: one 32-byte ABI word, kept as the part above bit 32
\* (hi) and the low 32 bits (lo).  The callers here encode a uint32.
ClearWords == {[hi |-> 0, lo |-> 0], [hi |-> 0, lo |-> 1000]}

\* A decryptionProof is a signature over (handle, cleartext bytes).  The KMS
\* signs the true opening of a handle and nothing else; anybody else may sign
\* anything.
SignedOpenings ==
    {[signer |-> "kms", cts |-> h, clear |-> [hi |-> 0, lo |-> Plain(h)]] :
        h \in Handles \ {NoHandle}}
ForgedProofs == {[signer |-> "mallory", cts |-> 2, clear |-> [hi |-> 0, lo |-> 1000]]}
DecryptionProofs == SignedOpenings \cup ForgedProofs

\* inputProof of an external ciphertext: accepted or rejected by the backend.
InputProofs == {"valid", "invalid"}

\* block.timestamp
Times == {0, 1}

VARIABLES
    debtRecords,          \* mapping(string => DebtRecord)
    debtIds,              \* string[]
    events,               \* the contract's event log, in emission order
    aclAllowed,           \* handles this contract may compute on (FHE.allowThis)
    publiclyDecryptable,  \* handles the KMS may disclose (FHE.makePubliclyDecryptable)
    blockTimestamp,       \* block.timestamp as the contract last read it
    lastCall              \* the latest call and its outcome

vars == <<debtRecords, debtIds, events, aclAllowed, publiclyDecryptable, blockTimestamp, lastCall>>

storage == <<debtRecords, debtIds, events, aclAllowed, publiclyDecryptable>>

\* ------------------------------------------------------------------- types
\* struct DebtRecord; the value of an unset mapping slot is all zeroes.
ZeroAddress == "0x0"

EmptyRecord ==
    [debtId |-> <<>>, encryptedAmount |-> NoHandle, interestRate |-> 0, termMonths |-> 0,
     owner |-> ZeroAddress, creationDate |-> 0, decryptedAmount |-> 0, isVerified |-> FALSE]

\* Revert reasons.  The first three are the require strings of the contract;
\* the last three are reverts raised inside the FHE library / ABI decoder.
ErrExists == "Debt record already exists"
ErrNotExist == "Debt record does not exist"
ErrVerified == "Debt already verified"
ErrInvalidAmount == "Invalid encrypted amount"
ErrInputProof == "InvalidInputProof"
ErrSignatures == "InvalidKMSSignatures"
ErrDecode == "AbiDecodeError"

Range(s) == {s[i] : i \in 1..Len(s)}

Count(s, x) == Cardinality({i \in 1..Len(s) : s[i] = x})

\* ----------------------------------------------------------- FHE backend
\* FHE.fromExternal(encryptedAmount, inputProof): reverts unless the backend
\* accepts the proof; the handle returned is the external handle itself.
fromExternalOk(inputProof) == inputProof = "valid"

fromExternal(encryptedAmount, inputProof) == encryptedAmount

isInitialized(h) == h # NoHandle

\* the handle list built at lines 62-63 not bound into the check: any opening
\* the KMS signed is accepted, whichever handle it opens
checkSignatures_HandleUnbound(cts, abiEncodedClearAmount, decryptionProof) ==
    /\ decryptionProof.signer = "kms"
    /\ decryptionProof.clear = abiEncodedClearAmount

\* FHE.checkSignatures(cts, cleartexts, decryptionProof): the proof must be the
\* KMS signature over exactly these handles and these cleartext bytes.
checkSignatures(cts, abiEncodedClearAmount, decryptionProof) ==
    /\ decryptionProof.signer = "kms"
    /\ decryptionProof.cts = cts
    /\ decryptionProof.clear = abiEncodedClearAmount

\* abi.decode(abiEncodedClearAmount, (uint32)): reverts on a word with bits
\* above the 32nd set, otherwise yields the low 32 bits.
abiDecodeOk(abiEncodedClearAmount) == abiEncodedClearAmount.hi = 0

abiDecodeUint32(abiEncodedClearAmount) == abiEncodedClearAmount.lo

\* ------------------------------------------------------------------ Init
Init ==
    /\ debtRecords = [x \in Ids |-> EmptyRecord]
    /\ debtIds = <<>>
    /\ events = <<>>
    /\ aclAllowed = {}
    /\ publiclyDecryptable = {}
    /\ blockTimestamp = 0
    /\ lastCall = [op |-> "constructor", args |-> <<>>, result |-> "ok", ret |-> <<>>]

\* bytes(debtRecords[debtId].debtId).length > 0, in the mapping records
recordExistsIn(records, debtId) == Len(records[debtId].debtId) > 0

recordExists(debtId) == recordExistsIn(debtRecords, debtId)

Revert(op, args, reason) ==
    /\ lastCall' = [op |-> op, args |-> args, result |-> reason, ret |-> <<>>]
    /\ UNCHANGED storage
    /\ UNCHANGED blockTimestamp

\* The block of a call: block.timestamp never decreases.  Only createDebtRecord
\* reads it, so only there does the model choose it.
NextBlock == blockTimestamp' \in {t \in Times : t >= blockTimestamp}

\* FHE.allowThis(handle): the contract may compute on the handle.
allowThis(handle) == aclAllowed' = aclAllowed \cup {handle}

\* line 48 left out
makePubliclyDecryptable_Missing(handle) == publiclyDecryptable' = publiclyDecryptable

\* FHE.makePubliclyDecryptable(handle): the KMS may disclose the handle.
makePubliclyDecryptable(handle) == publiclyDecryptable' = publiclyDecryptable \cup {handle}

\* ------------------------------------------------------- createDebtRecord
\* line 33 left out
createDebtRecordExistsCheck_Missing(debtId) == FALSE

createDebtRecordExistsCheck(debtId) == recordExists(debtId)

\* line 34 checking the handle only, with the input proof never verified
createDebtRecordAdmission_ProofIgnored(encryptedAmount, inputProof) ==
    IF ~isInitialized(encryptedAmount) THEN ErrInvalidAmount ELSE "ok"

\* the id put in front of the list instead of behind it
debtIdsPush_Front(debtId) == debtIds' = <<debtId>> \o debtIds

\* debtIds.push(debtId)
debtIdsPush(debtId) == debtIds' = Append(debtIds, debtId)

\* Outcome of line 34: "ok" or the revert reason.
createDebtRecordAdmission(encryptedAmount, inputProof) ==
    IF ~fromExternalOk(inputProof) THEN ErrInputProof
    ELSE IF ~isInitialized(fromExternal(encryptedAmount, inputProof)) THEN ErrInvalidAmount
    ELSE "ok"

\* The struct of lines 36-45.
newDebtRecord(sender, debtId, handle, interestRate, termMonths, timestamp) ==
    [debtId |-> debtId, encryptedAmount |-> handle,
     interestRate |-> interestRate, termMonths |-> termMonths,
     owner |-> sender, creationDate |-> timestamp,
     decryptedAmount |-> 0, isVerified |-> FALSE]

createDebtRecord(sender, debtId, encryptedAmount, inputProof, interestRate, termMonths) ==
    LET args == [sender |-> sender, debtId |-> debtId, encryptedAmount |-> encryptedAmount,
                 inputProof |-> inputProof, interestRate |-> interestRate,
                 termMonths |-> termMonths]
        admission == createDebtRecordAdmission(encryptedAmount, inputProof)
        handle == fromExternal(encryptedAmount, inputProof)
    IN  IF createDebtRecordExistsCheck(debtId)
        THEN Revert("createDebtRecord", args, ErrExists)
        ELSE IF admission # "ok"
        THEN Revert("createDebtRecord", args, admission)
        ELSE /\ NextBlock
             /\ debtRecords' = [debtRecords EXCEPT ![debtId] =
                    newDebtRecord(sender, debtId, handle, interestRate, termMonths,
                                  blockTimestamp')]
             /\ allowThis(handle)
             /\ makePubliclyDecryptable(handle)
             /\ debtIdsPush(debtId)
             /\ events' = Append(events, [name |-> "DebtRecordCreated", debtId |-> debtId,
                                           owner |-> sender])
             /\ lastCall' = [op |-> "createDebtRecord", args |-> args, result |-> "ok",
                             ret |-> <<>>]

CreateDebtRecord ==
    \E sender \in Principals, debtId \in Ids, encryptedAmount \in Handles,
       inputProof \in InputProofs, interestRate \in Rates, termMonths \in Terms :
        /\ createDebtRecord(sender, debtId, encryptedAmount, inputProof, interestRate, termMonths)
        /\ Len(debtIds') <= MaxIds

\* ------------------------------------------------------- verifyDebtAmount
\* line 59 left out
verifyDebtAmountExistsCheck_Missing(debtId) == TRUE

verifyDebtAmountExistsCheck(debtId) == recordExists(debtId)

\* line 60 left out
verifyDebtAmountVerifiedCheck_Missing(debtId) == FALSE

verifyDebtAmountVerifiedCheck(debtId) == debtRecords[debtId].isVerified

\* the ciphertext handle deleted once its cleartext is stored
verifyDebtAmountStore_ClearsCiphertext(debtId, decodedAmount) ==
    debtRecords' = [debtRecords EXCEPT ![debtId].decryptedAmount = decodedAmount,
                                       ![debtId].isVerified = TRUE,
                                       ![debtId].encryptedAmount = NoHandle]

\* the record replaced by a fresh struct carrying the two fields only
verifyDebtAmountStore_FreshStruct(debtId, decodedAmount) ==
    debtRecords' = [debtRecords EXCEPT ![debtId] =
                        [EmptyRecord EXCEPT !.decryptedAmount = decodedAmount,
                                            !.isVerified = TRUE]]

\* the two fields written to every record that holds the handle of debtId,
\* as if the disclosure were kept by ciphertext and not by id
verifiedRecords_ByHandle(records, debtId, decodedAmount) ==
    [y \in DOMAIN records |->
        IF records[y].encryptedAmount = records[debtId].encryptedAmount
        THEN [records[y] EXCEPT !.decryptedAmount = decodedAmount, !.isVerified = TRUE]
        ELSE records[y]]

\* The mapping records after lines 68-69.
verifiedRecords(records, debtId, decodedAmount) ==
    [records EXCEPT ![debtId].decryptedAmount = decodedAmount,
                    ![debtId].isVerified = TRUE]

verifyDebtAmountStore(debtId, decodedAmount) ==
    debtRecords' = verifiedRecords(debtRecords, debtId, decodedAmount)

\* lines 68-69 moved before line 65, and the bad proof answered by a return
\* instead of a revert: the writes made so far are kept
verifyDebtAmount_WritesBeforeCheck(sender, debtId, abiEncodedClearAmount, decryptionProof) ==
    LET args == [sender |-> sender, debtId |-> debtId,
                 abiEncodedClearAmount |-> abiEncodedClearAmount,
                 decryptionProof |-> decryptionProof]
        cts == debtRecords[debtId].encryptedAmount
        decodedAmount == abiDecodeUint32(abiEncodedClearAmount)
        valid == checkSignatures(cts, abiEncodedClearAmount, decryptionProof)
    IN  IF ~verifyDebtAmountExistsCheck(debtId)
        THEN Revert("verifyDebtAmount", args, ErrNotExist)
        ELSE IF verifyDebtAmountVerifiedCheck(debtId)
        THEN Revert("verifyDebtAmount", args, ErrVerified)
        ELSE /\ verifyDebtAmountStore(debtId, decodedAmount)
             /\ events' = IF valid
                           THEN Append(events, [name |-> "DebtVerification", debtId |-> debtId,
                                                decryptedAmount |-> decodedAmount])
                           ELSE events
             /\ lastCall' = [op |-> "verifyDebtAmount", args |-> args,
                             result |-> IF valid THEN "ok" ELSE ErrSignatures, ret |-> <<>>]
             /\ UNCHANGED <<debtIds, aclAllowed, publiclyDecryptable, blockTimestamp>>

\* a require(msg.sender == debtRecords[debtId].owner) added after line 60
verifyDebtAmount_OwnerOnly(sender, debtId, abiEncodedClearAmount, decryptionProof) ==
    LET args == [sender |-> sender, debtId |-> debtId,
                 abiEncodedClearAmount |-> abiEncodedClearAmount,
                 decryptionProof |-> decryptionProof]
        cts == debtRecords[debtId].encryptedAmount
        decodedAmount == abiDecodeUint32(abiEncodedClearAmount)
    IN  IF ~verifyDebtAmountExistsCheck(debtId)
        THEN Revert("verifyDebtAmount", args, ErrNotExist)
        ELSE IF verifyDebtAmountVerifiedCheck(debtId)
        THEN Revert("verifyDebtAmount", args, ErrVerified)
        ELSE IF sender # debtRecords[debtId].owner
        THEN Revert("verifyDebtAmount", args, "Not the owner")
        ELSE IF ~checkSignatures(cts, abiEncodedClearAmount, decryptionProof)
        THEN Revert("verifyDebtAmount", args, ErrSignatures)
        ELSE IF ~abiDecodeOk(abiEncodedClearAmount)
        THEN Revert("verifyDebtAmount", args, ErrDecode)
        ELSE /\ verifyDebtAmountStore(debtId, decodedAmount)
             /\ events' = Append(events, [name |-> "DebtVerification", debtId |-> debtId,
                                           decryptedAmount |-> decodedAmount])
             /\ lastCall' = [op |-> "verifyDebtAmount", args |-> args, result |-> "ok",
                             ret |-> <<>>]
             /\ UNCHANGED <<debtIds, aclAllowed, publiclyDecryptable, blockTimestamp>>

verifyDebtAmount(sender, debtId, abiEncodedClearAmount, decryptionProof) ==
    LET args == [sender |-> sender, debtId |-> debtId,
                 abiEncodedClearAmount |-> abiEncodedClearAmount,
                 decryptionProof |-> decryptionProof]
        cts == debtRecords[debtId].encryptedAmount
        decodedAmount == abiDecodeUint32(abiEncodedClearAmount)
    IN  IF ~verifyDebtAmountExistsCheck(debtId)
        THEN Revert("verifyDebtAmount", args, ErrNotExist)
        ELSE IF verifyDebtAmountVerifiedCheck(debtId)
        THEN Revert("verifyDebtAmount", args, ErrVerified)
        ELSE IF ~checkSignatures(cts, abiEncodedClearAmount, decryptionProof)
        THEN Revert("verifyDebtAmount", args, ErrSignatures)
        ELSE IF ~abiDecodeOk(abiEncodedClearAmount)
        THEN Revert("verifyDebtAmount", args, ErrDecode)
        ELSE /\ verifyDebtAmountStore(debtId, decodedAmount)
             /\ events' = Append(events, [name |-> "DebtVerification", debtId |-> debtId,
                                           decryptedAmount |-> decodedAmount])
             /\ lastCall' = [op |-> "verifyDebtAmount", args |-> args, result |-> "ok",
                             ret |-> <<>>]
             /\ UNCHANGED <<debtIds, aclAllowed, publiclyDecryptable, blockTimestamp>>

VerifyDebtAmount ==
    \E sender \in Principals, debtId \in Ids, abiEncodedClearAmount \in ClearWords,
       decryptionProof \in DecryptionProofs :
        verifyDebtAmount(sender, debtId, abiEncodedClearAmount, decryptionProof)

\* ------------------------------------------------ calculateMonthlyPayment
\* Unsigned words wider than TLC's integers are kept as two limbs: the value
\* is hi * 65536 + lo, with 0 <= lo < 65536.  A uint32 has hi < 65536.
Scale == 1000

MonthsPerYear == 12

\* n * 1000 in uint256 arithmetic, for 0 <= n < 2^31.
mulScale(n) ==
    LET low == (n % 65536) * Scale
    IN  [hi |-> (n \div 65536) * Scale + (low \div 65536), lo |-> low % 65536]

\* uint32(w): the low 32 bits of w.
toUint32(w) == [hi |-> w.hi % 65536, lo |-> w.lo]

uint32Const(n) == [hi |-> 0, lo |-> n]

\* Ciphertexts computed by the backend are kept as the terms that define them.
FHEencrypt(w) == [op |-> "encrypt", value |-> w]

FHEhandle(h) == [op |-> "handle", handle |-> h]

FHEbin(op, l, r) == [op |-> op, l |-> l, r |-> r]

fixedRateOf(interestRate) == toUint32(mulScale(interestRate \div MonthsPerYear))

fixedMonthsOf(termMonths) == toUint32(mulScale(termMonths))

monthlyPaymentOf(encryptedAmount, interestRate, termMonths) ==
    LET rateFactor == FHEencrypt(fixedRateOf(interestRate))
        monthFactor == FHEencrypt(fixedMonthsOf(termMonths))
        numerator == FHEbin("mul", FHEhandle(encryptedAmount), rateFactor)
        denominator ==
            FHEbin("sub", FHEencrypt(uint32Const(Scale)),
                   FHEbin("exp", FHEbin("add", FHEencrypt(uint32Const(Scale)), rateFactor),
                          FHEbin("sub", FHEencrypt(uint32Const(0)), monthFactor)))
    IN  FHEbin("div", numerator, denominator)

\* the amount taken from decryptedAmount once the record is verified
calculateMonthlyPaymentReturn_UsesCleartext(debtId) ==
    IF debtRecords[debtId].isVerified
    THEN [monthlyPaymentOf(debtRecords[debtId].encryptedAmount,
                           debtRecords[debtId].interestRate,
                           debtRecords[debtId].termMonths)
             EXCEPT !.l.l = FHEencrypt(uint32Const(debtRecords[debtId].decryptedAmount))]
    ELSE monthlyPaymentOf(debtRecords[debtId].encryptedAmount,
                          debtRecords[debtId].interestRate, debtRecords[debtId].termMonths)

\* The euint32 the function returns for a record that exists.
calculateMonthlyPaymentReturn(debtId) ==
    monthlyPaymentOf(debtRecords[debtId].encryptedAmount, debtRecords[debtId].interestRate,
                     debtRecords[debtId].termMonths)

\* the computation using up the record's decryption authorization
calculateMonthlyPayment_ConsumesAuthorization(debtId) ==
    IF ~recordExists(debtId)
    THEN Revert("calculateMonthlyPayment", [debtId |-> debtId], ErrNotExist)
    ELSE /\ lastCall' = [op |-> "calculateMonthlyPayment", args |-> [debtId |-> debtId],
                         result |-> "ok", ret |-> calculateMonthlyPaymentReturn(debtId)]
         /\ publiclyDecryptable' = publiclyDecryptable \ {debtRecords[debtId].encryptedAmount}
         /\ UNCHANGED <<debtRecords, debtIds, events, aclAllowed, blockTimestamp>>

calculateMonthlyPayment(debtId) ==
    IF ~recordExists(debtId)
    THEN Revert("calculateMonthlyPayment", [debtId |-> debtId], ErrNotExist)
    ELSE /\ lastCall' = [op |-> "calculateMonthlyPayment", args |-> [debtId |-> debtId],
                         result |-> "ok", ret |-> calculateMonthlyPaymentReturn(debtId)]
         /\ UNCHANGED <<storage, blockTimestamp>>

CalculateMonthlyPayment == \E debtId \in Ids : calculateMonthlyPayment(debtId)

\* ---------------------------------------------------------- getDebtRecord
getDebtRecordReturn(record) ==
    <<record.debtId, record.interestRate, record.termMonths, record.owner,
      record.creationDate, record.isVerified, record.decryptedAmount>>

getDebtRecord(debtId) ==
    IF ~recordExists(debtId)
    THEN Revert("getDebtRecord", [debtId |-> debtId], ErrNotExist)
    ELSE /\ lastCall' = [op |-> "getDebtRecord", args |-> [debtId |-> debtId],
                         result |-> "ok", ret |-> getDebtRecordReturn(debtRecords[debtId])]
         /\ UNCHANGED <<storage, blockTimestamp>>

GetDebtRecord == \E debtId \in Ids : getDebtRecord(debtId)

\* ---------------------------------------------------------- getAllDebtIds
getAllDebtIds ==
    /\ lastCall' = [op |-> "getAllDebtIds", args |-> <<>>, result |-> "ok", ret |-> debtIds]
    /\ UNCHANGED <<storage, blockTimestamp>>

GetAllDebtIds == getAllDebtIds

\* ------------------------------------------------------------ isAvailable
isAvailable ==
    /\ lastCall' = [op |-> "isAvailable", args |-> <<>>, result |-> "ok", ret |-> TRUE]
    /\ UNCHANGED <<storage, blockTimestamp>>

IsAvailable == isAvailable

Next ==
    \/ CreateDebtRecord
    \/ VerifyDebtAmount
    \/ CalculateMonthlyPayment
    \/ GetDebtRecord
    \/ GetAllDebtIds
    \/ IsAvailable

Spec == Init /\ [][Next]_vars

\* ------------------------------------------------------------------------
\* The same contract with four ids and one choice of the other arguments, for
\* the order of creation: the ledger of SpecOrder holds up to MaxOrderIds ids.
MaxOrderIds == 3

OrderIds == {<<>>, <<"a">>, <<"b">>, <<"c">>}

InitOrder ==
    /\ debtRecords = [x \in OrderIds |-> EmptyRecord]
    /\ debtIds = <<>>
    /\ events = <<>>
    /\ aclAllowed = {}
    /\ publiclyDecryptable = {}
    /\ blockTimestamp = 0
    /\ lastCall = [op |-> "constructor", args |-> <<>>, result |-> "ok", ret |-> <<>>]

OrderCreate ==
    \E debtId \in OrderIds, inputProof \in InputProofs :
        /\ createDebtRecord("alice", debtId, 2, inputProof, 12, 24)
        /\ Len(debtIds') <= MaxOrderIds

OrderVerify ==
    \E debtId \in OrderIds, decryptionProof \in DecryptionProofs :
        verifyDebtAmount("bob", debtId, [hi |-> 0, lo |-> 1000], decryptionProof)

OrderList == getAllDebtIds

NextOrder ==
    \/ OrderCreate
    \/ OrderVerify
    \/ OrderList

SpecOrder == InitOrder /\ [][NextOrder]_vars

\* ------------------------------------------------------------------------
\* The payment computation over a range of stored rates and terms: one record
\* is created under the id "a" with any rate up to MaxPaymentRate and a term
\* that fits, or does not fit, a uint32 once scaled.
MaxPaymentRate == 24

PaymentRates == 0 .. MaxPaymentRate

PaymentTerms == {1, 24, 360, 4294967, 4294968}

PaymentCreate ==
    \E interestRate \in PaymentRates, termMonths \in PaymentTerms :
        createDebtRecord("alice", <<"a">>, 2, "valid", interestRate, termMonths)

PaymentCalculate == calculateMonthlyPayment(<<"a">>)

NextPayment ==
    \/ PaymentCreate
    \/ PaymentCalculate

SpecPayment == Init /\ [][NextPayment]_vars

\* ------------------------------------------------------------------------
\* The two writers on the empty id and two other ids, with ciphertexts of both
\* plaintexts: the ledger of SpecIndep holds up to MaxIndepIds ids.
MaxIndepIds == 2

IndepIds == {<<>>, <<"a">>, <<"b">>}

InitIndep ==
    /\ debtRecords = [x \in IndepIds |-> EmptyRecord]
    /\ debtIds = <<>>
    /\ events = <<>>
    /\ aclAllowed = {}
    /\ publiclyDecryptable = {}
    /\ blockTimestamp = 0
    /\ lastCall = [op |-> "constructor", args |-> <<>>, result |-> "ok", ret |-> <<>>]

IndepCreate ==
    \E debtId \in IndepIds, encryptedAmount \in Handles \ {NoHandle} :
        /\ createDebtRecord("alice", debtId, encryptedAmount, "valid", 12, 24)
        /\ Len(debtIds') <= MaxIndepIds

IndepVerify ==
    \E debtId \in IndepIds, decryptionProof \in SignedOpenings :
        verifyDebtAmount("bob", debtId, decryptionProof.clear, decryptionProof)

NextIndep ==
    \/ IndepCreate
    \/ IndepVerify

SpecIndep == InitIndep /\ [][NextIndep]_vars

\* ======================================================================
\* Properties
\* ======================================================================

\* A createDebtRecord(x, ...) has succeeded: it emitted DebtRecordCreated(x, _).
Created(x) ==
    \E i \in 1..Len(events) : events[i].name = "DebtRecordCreated" /\ events[i].debtId = x

\* The storage slot of x holds something.
HasRecord(x) == debtRecords[x] # EmptyRecord

\* The DebtVerification events emitted for x.
Disclosures(log, x) ==
    {i \in 1..Len(log) : log[i].name = "DebtVerification" /\ log[i].debtId = x}

\* The call made in this step.
CallIs(op, x) == lastCall'.op = op /\ lastCall'.args.debtId = x

\* The spec's InvalidCiphertextProof: the backend rejects the proof, or the
\* ciphertext is not a well-formed one.
InvalidCiphertextProof == {ErrInputProof, ErrInvalidAmount}

\* ---------------------------------------------------------------- C1
\* C1: once createDebtRecord(x, ...) has succeeded, every later
\* createDebtRecord(x, ...), whatever its arguments and caller, reverts with
\* "Debt record already exists", and debtIds holds x exactly once; for every
\* id x, the empty string included.
C1_DuplicateRejected ==
    [][\A x \in Ids :
        (Created(x) /\ CallIs("createDebtRecord", x))
            => (lastCall'.result = ErrExists /\ Count(debtIds', x) = 1)]_vars

\* ---------------------------------------------------------------- C2
\* C2: isVerified of a record never goes from true to false, and
\* decryptedAmount changes only in a step in which isVerified goes from false
\* to true (so at most once).
C2_VerificationMonotone ==
    [][\A x \in Ids :
        /\ debtRecords[x].isVerified => debtRecords'[x].isVerified
        /\ debtRecords'[x].decryptedAmount # debtRecords[x].decryptedAmount
              => (~debtRecords[x].isVerified /\ debtRecords'[x].isVerified)]_vars

\* A record was verified with a non-zero amount: both fields made the transition.
C2_Witness ==
    \E x \in Ids : debtRecords[x].isVerified /\ debtRecords[x].decryptedAmount = 1000

\* ---------------------------------------------------------------- C3
\* C3: on a record already verified, every verifyDebtAmount, with any cleartext
\* and any proof (valid or forged), reverts with "Debt already verified",
\* leaves decryptedAmount at the value disclosed by the one DebtVerification
\* event of the record, and emits nothing.
C3_SecondVerifyRejected ==
    [][\A x \in Ids :
        (debtRecords[x].isVerified /\ CallIs("verifyDebtAmount", x))
            => /\ lastCall'.result = ErrVerified
               /\ events' = events
               /\ Cardinality(Disclosures(events', x)) = 1
               /\ \A i \in Disclosures(events', x) :
                      debtRecords'[x].decryptedAmount = events'[i].decryptedAmount]_vars

\* A verified record was presented a forged proof and a different cleartext,
\* and the call was rejected as already verified.
C3_Witness ==
    /\ lastCall.op = "verifyDebtAmount"
    /\ lastCall.result = ErrVerified
    /\ lastCall.args.decryptionProof \in ForgedProofs
    /\ debtRecords[lastCall.args.debtId].isVerified
    /\ debtRecords[lastCall.args.debtId].decryptedAmount # lastCall.args.abiEncodedClearAmount.lo

\* ---------------------------------------------------------------- C4
\* C4: for every id, the encryptedAmount handle stored by the first successful
\* createDebtRecord is the handle stored in every later state.
C4_CiphertextImmutable ==
    [][\A x \in Ids :
        Created(x) => debtRecords'[x].encryptedAmount = debtRecords[x].encryptedAmount]_vars

\* ---------------------------------------------------------------- C5
\* C5: debtIds holds no id twice, and its elements are exactly the ids that
\* have a record.
C5_IdsUnique ==
    /\ \A x \in Ids : Count(debtIds, x) <= 1
    /\ Range(debtIds) = {x \in Ids : HasRecord(x)}

\* ---------------------------------------------------------------- C6
\* decryptedAmount as getDebtRecord shows it is present when it differs from
\* the value the record is created with (line 43).
AbsentAmount == 0

\* C6: in the tuple getDebtRecord returns, isVerified is true exactly when
\* decryptedAmount is present, for every cleartext, zero included.
C6_AtomicDisclosure ==
    \A x \in Ids :
        recordExists(x) =>
            LET ret == getDebtRecordReturn(debtRecords[x])
            IN  ret[6] <=> (ret[7] # AbsentAmount)

\* ---------------------------------------------------------------- C7
\* C7: a successful createDebtRecord(x, h, validProof, rate, term) followed by
\* verifyDebtAmount(x, v, proof) with v the plaintext of h and proof the KMS
\* opening of h succeeds, and getDebtRecord(x) then returns isVerified = true,
\* decryptedAmount = v, interestRate = rate, termMonths = term; for every x.
C7_RoundTrip ==
    [][\A x \in Ids :
        (/\ lastCall.op = "createDebtRecord"
         /\ lastCall.result = "ok"
         /\ lastCall.args.debtId = x
         /\ CallIs("verifyDebtAmount", x)
         /\ lastCall'.args.decryptionProof \in SignedOpenings
         /\ lastCall'.args.decryptionProof.cts = lastCall.args.encryptedAmount
         /\ lastCall'.args.abiEncodedClearAmount = lastCall'.args.decryptionProof.clear)
            => /\ lastCall'.result = "ok"
               /\ Len(debtRecords'[x].debtId) > 0
               /\ LET ret == getDebtRecordReturn(debtRecords'[x])
                  IN  /\ ret[2] = lastCall.args.interestRate
                      /\ ret[3] = lastCall.args.termMonths
                      /\ ret[6] = TRUE
                      /\ ret[7] = Plain(lastCall.args.encryptedAmount)]_vars

\* ---------------------------------------------------------------- C8
\* C8: verifyDebtAmount(x, ...) for an id x for which no createDebtRecord has
\* succeeded reverts with "Debt record does not exist", whatever cleartext and
\* proof are supplied, and changes nothing.
C8_VerifyUnknownRejected ==
    [][\A x \in Ids :
        (~Created(x) /\ CallIs("verifyDebtAmount", x))
            => (lastCall'.result = ErrNotExist /\ UNCHANGED storage)]_vars

\* verifyDebtAmount was called with a genuine KMS proof on an id never created.
C8_Witness ==
    /\ lastCall.op = "verifyDebtAmount"
    /\ lastCall.result = ErrNotExist
    /\ ~Created(lastCall.args.debtId)
    /\ lastCall.args.decryptionProof \in SignedOpenings

\* ---------------------------------------------------------------- C9
\* The proof is the committee's attestation that clear opens handle h.
ValidOpening(h, clear, proof) ==
    proof \in SignedOpenings /\ proof.cts = h /\ proof.clear = clear

\* A verifyDebtAmount(x, ...) that would succeed now.
VerifySucceeds(x) ==
    \E sender \in Principals, c \in ClearWords, p \in DecryptionProofs :
        verifyDebtAmount(sender, x, c, p) /\ lastCall'.result = "ok"

\* C9: on a record that was created and is not verified, a verifyDebtAmount
\* whose proof does not validate for the record's handle and the supplied
\* cleartext reverts with the signature error, isVerified stays false,
\* decryptedAmount stays 0, nothing is emitted; and after such a call a
\* verifyDebtAmount with a valid proof can still succeed.
C9_InvalidProofRejected ==
    /\ [][\A x \in Ids :
            (/\ Created(x)
             /\ ~debtRecords[x].isVerified
             /\ CallIs("verifyDebtAmount", x)
             /\ ~ValidOpening(debtRecords[x].encryptedAmount,
                              lastCall'.args.abiEncodedClearAmount,
                              lastCall'.args.decryptionProof))
                => /\ lastCall'.result = ErrSignatures
                   /\ UNCHANGED storage
                   /\ ~debtRecords'[x].isVerified
                   /\ debtRecords'[x].decryptedAmount = 0]_vars
    /\ [](\A x \in Ids :
            (/\ lastCall.op = "verifyDebtAmount"
             /\ lastCall.result # "ok"
             /\ lastCall.args.debtId = x
             /\ Created(x)
             /\ ~debtRecords[x].isVerified)
                => ENABLED VerifySucceeds(x))

\* The same for the records the existence check of line 59 finds, which leaves
\* out a record created under the empty id: there the statement holds.
InvalidProofRejectedWhereFound ==
    /\ [][\A x \in Ids :
            (/\ recordExists(x)
             /\ ~debtRecords[x].isVerified
             /\ CallIs("verifyDebtAmount", x)
             /\ ~ValidOpening(debtRecords[x].encryptedAmount,
                              lastCall'.args.abiEncodedClearAmount,
                              lastCall'.args.decryptionProof))
                => /\ lastCall'.result = ErrSignatures
                   /\ UNCHANGED storage
                   /\ ~debtRecords'[x].isVerified
                   /\ debtRecords'[x].decryptedAmount = 0]_vars
    /\ [](lastCall.result = ErrSignatures => ENABLED VerifySucceeds(lastCall.args.debtId))

\* ---------------------------------------------------------------- C10
\* C10 as stated: createDebtRecord with an invalid input proof reverts with
\* InvalidCiphertextProof and changes nothing.
C10_InvalidProofAlwaysCiphertextError ==
    [][\A x \in Ids :
        (CallIs("createDebtRecord", x) /\ lastCall'.args.inputProof = "invalid")
            => (lastCall'.result \in InvalidCiphertextProof /\ UNCHANGED storage)]_vars

\* C10 amended: createDebtRecord with an invalid input proof reverts, with
\* "Debt record already exists" when the duplicate check (which runs first)
\* rejects the id and with InvalidCiphertextProof otherwise, and changes no
\* record, no id and no event; and a record's handle is only ever written by a
\* createDebtRecord whose input proof was valid and whose handle is initialized.
C10_InvalidProofRejected ==
    [][\A x \in Ids :
        /\ (CallIs("createDebtRecord", x) /\ lastCall'.args.inputProof = "invalid")
              => /\ lastCall'.result = IF recordExists(x) THEN ErrExists ELSE ErrInputProof
                 /\ UNCHANGED storage
        /\ debtRecords'[x] # debtRecords[x] /\ lastCall'.op = "createDebtRecord"
              => /\ lastCall'.args.inputProof = "valid"
                 /\ isInitialized(debtRecords'[x].encryptedAmount)
                 /\ debtRecords'[x].encryptedAmount = lastCall'.args.encryptedAmount]_vars

\* An invalid input proof was rejected on a fresh id, with a usable handle.
C10_Witness ==
    /\ lastCall.op = "createDebtRecord"
    /\ lastCall.result = ErrInputProof
    /\ lastCall.args.inputProof = "invalid"
    /\ isInitialized(lastCall.args.encryptedAmount)
    /\ ~Created(lastCall.args.debtId)

\* ---------------------------------------------------------------- C11
\* The DebtRecordCreated events emitted for x.
Creations(log, x) ==
    {i \in 1..Len(log) : log[i].name = "DebtRecordCreated" /\ log[i].debtId = x}

\* C11: in every state DebtRecordCreated(x, owner) is in the log exactly once
\* when a record x is stored, with the record's owner, and not at all
\* otherwise; DebtVerification(x, v) is in the log exactly once when record x
\* is verified, with v its decryptedAmount, and not at all otherwise; and a
\* call that reverts emits nothing.
C11_NotificationsAuthoritative ==
    /\ [](\A x \in Ids :
            /\ Cardinality(Creations(events, x)) = IF HasRecord(x) THEN 1 ELSE 0
            /\ \A i \in Creations(events, x) : events[i].owner = debtRecords[x].owner
            /\ Cardinality(Disclosures(events, x)) = IF debtRecords[x].isVerified THEN 1 ELSE 0
            /\ \A i \in Disclosures(events, x) :
                   events[i].decryptedAmount = debtRecords[x].decryptedAmount)
    /\ [][lastCall'.result # "ok" => events' = events]_vars

\* The same with the empty id left aside: there it holds.
NotificationsAuthoritativeNonEmptyId ==
    /\ [](\A x \in Ids \ {<<>>} :
            /\ Cardinality(Creations(events, x)) = IF HasRecord(x) THEN 1 ELSE 0
            /\ \A i \in Creations(events, x) : events[i].owner = debtRecords[x].owner
            /\ Cardinality(Disclosures(events, x)) = IF debtRecords[x].isVerified THEN 1 ELSE 0
            /\ \A i \in Disclosures(events, x) :
                   events[i].decryptedAmount = debtRecords[x].decryptedAmount)
    /\ [][lastCall'.result # "ok" => events' = events]_vars

\* ---------------------------------------------------------------- C12
\* The ids of the successful createDebtRecord calls, in the order of the calls.
CreatedOrder(log) ==
    LET created == SelectSeq(log, LAMBDA e : e.name = "DebtRecordCreated")
    IN  [i \in 1..Len(created) |-> created[i].debtId]

\* C12: debtIds is the sequence of the ids of the successful createDebtRecord
\* calls in the order of the calls, whatever verifyDebtAmount calls (successful
\* or reverted) came between them, and getAllDebtIds returns that sequence.
C12_ListInCreationOrder ==
    /\ debtIds = CreatedOrder(events)
    /\ lastCall.op = "getAllDebtIds" => lastCall.ret = debtIds

\* a, b, c were created in that order, a was verified before b was created,
\* and getAllDebtIds returned [a, b, c].
C12_Witness ==
    /\ lastCall.op = "getAllDebtIds"
    /\ lastCall.ret = << <<"a">>, <<"b">>, <<"c">> >>
    /\ Len(events) >= 3
    /\ events[2].name = "DebtVerification"
    /\ events[3].name = "DebtRecordCreated"

\* ---------------------------------------------------------------- C13
\* Transactions on the contract are serialized, so createDebtRecord calls that
\* race are calls made one after the other in some order.
\* C13: of the createDebtRecord calls for one id with a valid input proof and
\* an initialized handle, made in any order, exactly one succeeds (the first)
\* and the others revert with "Debt record already exists"; the record stored
\* holds the fields of the call that succeeded.
C13_CreateRace ==
    /\ [][\A x \in Ids :
            (/\ CallIs("createDebtRecord", x)
             /\ lastCall'.args.inputProof = "valid"
             /\ isInitialized(lastCall'.args.encryptedAmount))
                => IF Created(x)
                   THEN lastCall'.result = ErrExists /\ debtRecords'[x] = debtRecords[x]
                   ELSE /\ lastCall'.result = "ok"
                        /\ debtRecords'[x].encryptedAmount = lastCall'.args.encryptedAmount
                        /\ debtRecords'[x].owner = lastCall'.args.sender
                        /\ debtRecords'[x].interestRate = lastCall'.args.interestRate
                        /\ debtRecords'[x].termMonths = lastCall'.args.termMonths]_vars
    /\ [](\A x \in Ids : Cardinality(Creations(events, x)) <= 1)

\* ---------------------------------------------------------------- C14
\* C14: of the verifyDebtAmount calls with a valid proof for one record that
\* was created, made in any order, exactly one succeeds (the first, made while
\* the record is unverified) and the others revert with "Debt already
\* verified"; the log holds exactly one DebtVerification for the record.
C14_VerifyRace ==
    [][\A x \in Ids :
        (/\ Created(x)
         /\ CallIs("verifyDebtAmount", x)
         /\ ValidOpening(debtRecords[x].encryptedAmount,
                         lastCall'.args.abiEncodedClearAmount,
                         lastCall'.args.decryptionProof))
            => /\ lastCall'.result = IF debtRecords[x].isVerified THEN ErrVerified ELSE "ok"
               /\ Cardinality(Disclosures(events', x)) = 1]_vars

\* ---------------------------------------------------------------- C15
\* C15: a call of any function that reverts leaves the records, the id list,
\* the ACL of the backend (computation and decryption authorizations) and the
\* event log as they were.
C15_FailureAtomic ==
    [][lastCall'.result # "ok" =>
          /\ debtRecords' = debtRecords
          /\ debtIds' = debtIds
          /\ aclAllowed' = aclAllowed
          /\ publiclyDecryptable' = publiclyDecryptable
          /\ events' = events]_vars

\* A forged proof was rejected on a ledger that holds an unverified record.
C15_Witness ==
    /\ lastCall.op = "verifyDebtAmount"
    /\ lastCall.result = ErrSignatures
    /\ Len(debtIds) > 0
    /\ recordExists(lastCall.args.debtId)
    /\ debtRecords[lastCall.args.debtId] # EmptyRecord
    /\ Len(events) = Len(debtIds)

\* ---------------------------------------------------------------- C16
\* The fields of a record that are public and fixed at creation.
PublicFields(record) ==
    <<record.debtId, record.interestRate, record.termMonths, record.owner, record.creationDate>>

\* C16: the first successful createDebtRecord for an id stores the id, the
\* rate, the term, the caller as owner and the block's timestamp, and in every
\* later state these five fields of the record are the same.
C16_PublicFieldsImmutable ==
    [][\A x \in Ids :
        /\ (~Created(x) /\ CallIs("createDebtRecord", x) /\ lastCall'.result = "ok")
              => PublicFields(debtRecords'[x]) =
                     <<x, lastCall'.args.interestRate, lastCall'.args.termMonths,
                       lastCall'.args.sender, blockTimestamp'>>
        /\ Created(x) => PublicFields(debtRecords'[x]) = PublicFields(debtRecords[x])]_vars

\* ---------------------------------------------------------------- C17
IsPrefix(s, t) == Len(s) <= Len(t) /\ \A i \in 1..Len(s) : s[i] = t[i]

\* C17: once createDebtRecord(x, ...) has succeeded, the storage holds a record
\* under x, carrying the id x, in every later state, and every step leaves
\* debtIds a prefix of what it becomes.
C17_NeverDeleted ==
    [][/\ \A x \in Ids :
            /\ Created(x) => Created(x)'
            /\ (Created(x) \/ Created(x)') =>
                   (HasRecord(x)' /\ debtRecords'[x].debtId = x /\ x \in Range(debtIds'))
       /\ IsPrefix(debtIds, debtIds')]_vars

\* One record is verified and a second id was created after it.
C17_Witness ==
    /\ Len(debtIds) = 2
    /\ debtRecords[debtIds[1]].isVerified
    /\ Len(events) = 3
    /\ events[3].name = "DebtRecordCreated"

\* ---------------------------------------------------------------- C18
\* C18: in every state the encryptedAmount handle of every stored record is
\* publicly decryptable; the set of publicly decryptable handles never loses a
\* handle, and it changes only in a successful createDebtRecord, which adds the
\* handle it stores and nothing else.
C18_DecryptableGrantedOnce ==
    /\ [](\A x \in Ids :
            HasRecord(x) => debtRecords[x].encryptedAmount \in publiclyDecryptable)
    /\ [][/\ publiclyDecryptable \subseteq publiclyDecryptable'
          /\ (lastCall'.op = "createDebtRecord" /\ lastCall'.result = "ok")
                => /\ debtRecords'[lastCall'.args.debtId].encryptedAmount
                          \in publiclyDecryptable'
                   /\ publiclyDecryptable' =
                          publiclyDecryptable \cup {lastCall'.args.encryptedAmount}
          /\ ~(lastCall'.op = "createDebtRecord" /\ lastCall'.result = "ok")
                => publiclyDecryptable' = publiclyDecryptable]_vars

\* Two records with different handles, both handles publicly decryptable, one
\* of the records verified since.
C18_Witness ==
    /\ publiclyDecryptable = {1, 2}
    /\ \E x \in Ids, y \in Ids :
          /\ debtRecords[x].encryptedAmount = 1
          /\ debtRecords[y].encryptedAmount = 2
          /\ debtRecords[y].isVerified

\* ---------------------------------------------------------------- C19
\* C19: a calculateMonthlyPayment call, whether it returns or reverts, leaves
\* every record (isVerified and decryptedAmount included), the id list, the
\* authorizations of the backend and the event log unchanged.
C19_MonthlyPaymentReadOnly ==
    [][lastCall'.op = "calculateMonthlyPayment" =>
          /\ debtRecords' = debtRecords
          /\ debtIds' = debtIds
          /\ aclAllowed' = aclAllowed
          /\ publiclyDecryptable' = publiclyDecryptable
          /\ events' = events
          /\ lastCall'.result \in {"ok", ErrNotExist}]_vars

\* The payment was computed for a record that is not verified yet.
C19_Witness ==
    /\ lastCall.op = "calculateMonthlyPayment"
    /\ lastCall.result = "ok"
    /\ ~debtRecords[lastCall.args.debtId].isVerified
    /\ debtRecords[lastCall.args.debtId].encryptedAmount \in publiclyDecryptable

\* ---------------------------------------------------------------- C20
\* C20: a successful verifyDebtAmount(x, ...) does not change what
\* calculateMonthlyPayment(x) returns: the ciphertext returned after it is the
\* one returned before it, a term over the encrypted amount and the public
\* rate and term only; and what a call returns is that term.
C20_PaymentIgnoresVerification ==
    /\ [][\A x \in Ids :
            (CallIs("verifyDebtAmount", x) /\ lastCall'.result = "ok")
                => /\ recordExists(x) /\ recordExists(x)'
                   /\ calculateMonthlyPaymentReturn(x)' = calculateMonthlyPaymentReturn(x)]_vars
    /\ []((lastCall.op = "calculateMonthlyPayment" /\ lastCall.result = "ok")
            => lastCall.ret = monthlyPaymentOf(debtRecords[lastCall.args.debtId].encryptedAmount,
                                               debtRecords[lastCall.args.debtId].interestRate,
                                               debtRecords[lastCall.args.debtId].termMonths))

\* The payment was computed for a record verified with a non-zero amount.
C20_Witness ==
    /\ lastCall.op = "calculateMonthlyPayment"
    /\ lastCall.result = "ok"
    /\ debtRecords[lastCall.args.debtId].isVerified
    /\ debtRecords[lastCall.args.debtId].decryptedAmount = 1000

\* The value hi * 65536 + lo of a number below 2^31.
Limbs(n) == [hi |-> n \div 65536, lo |-> n % 65536]

\* round(n / d) for naturals n and d > 0, halves rounded up.
RoundDiv(n, d) == (2 * n + d) \div (2 * d)

\* The rate operand and the term operand of the payment a call returned.
RateOperand(payment) == payment.l.r.value

TermOperand(payment) == payment.r.r.r.r.value

\* C21: every payment returned is computed from the operands
\* rateFixed = round((interestRate / 12) * 1000) and termFixed = termMonths * 1000
\* of the record's stored rate and term (5 gives 417, 12 gives 1000).
C21_FixedPointOperands ==
    \A x \in DOMAIN debtRecords :
        (lastCall.op = "calculateMonthlyPayment" /\ lastCall.args.debtId = x
         /\ lastCall.result = "ok")
        => /\ RateOperand(lastCall.ret)
                = Limbs(RoundDiv(debtRecords[x].interestRate * Scale, MonthsPerYear))
           /\ TermOperand(lastCall.ret) = mulScale(debtRecords[x].termMonths)

\* The same with the rates that are whole multiples of 12 and the terms whose
\* scaled value fits 32 bits: what the code does compute.
FixedPointOperandsWholeMonthlyRate ==
    \A x \in DOMAIN debtRecords :
        (lastCall.op = "calculateMonthlyPayment" /\ lastCall.args.debtId = x
         /\ lastCall.result = "ok"
         /\ debtRecords[x].interestRate % MonthsPerYear = 0
         /\ mulScale(debtRecords[x].termMonths).hi < 65536)
        => /\ RateOperand(lastCall.ret)
                = Limbs(RoundDiv(debtRecords[x].interestRate * Scale, MonthsPerYear))
           /\ TermOperand(lastCall.ret) = mulScale(debtRecords[x].termMonths)

\* C22: a payment is never returned for a record whose scaled rate or scaled
\* term does not fit 32 bits: the call fails instead.
C22_OverflowRejected ==
    \A x \in DOMAIN debtRecords :
        (lastCall.op = "calculateMonthlyPayment" /\ lastCall.args.debtId = x
         /\ HasRecord(x)
         /\ (mulScale(debtRecords[x].interestRate \div MonthsPerYear).hi >= 65536
             \/ mulScale(debtRecords[x].termMonths).hi >= 65536))
        => lastCall.result \notin {"ok", ErrNotExist}

\* ---------------------------------------------------------------- C23
\* C23: for every id that was created and is not verified, a verifyDebtAmount
\* with a proof valid for the record's handle can succeed in every reachable
\* state (no other operation disables it), and when such a call is made it
\* succeeds and the record is verified.
C23_CreatedCanBeVerified ==
    /\ [](\A x \in Ids :
            (Created(x) /\ ~debtRecords[x].isVerified) => ENABLED VerifySucceeds(x))
    /\ [][\A x \in Ids :
            (/\ Created(x)
             /\ ~debtRecords[x].isVerified
             /\ CallIs("verifyDebtAmount", x)
             /\ ValidOpening(debtRecords[x].encryptedAmount,
                             lastCall'.args.abiEncodedClearAmount,
                             lastCall'.args.decryptionProof))
                => (lastCall'.result = "ok" /\ debtRecords'[x].isVerified)]_vars

\* ---------------------------------------------------------------- C24
\* The operations that look a record up.
Lookups == {"getDebtRecord", "verifyDebtAmount", "calculateMonthlyPayment"}

\* C24: for every id x, a getDebtRecord(x), verifyDebtAmount(x, ...) or
\* calculateMonthlyPayment(x) reverts with "Debt record does not exist"
\* exactly when no createDebtRecord(x, ...) has succeeded before it.
C24_ExistenceConsistent ==
    [][\A x \in Ids : \A op \in Lookups :
        CallIs(op, x) => (lastCall'.result = ErrNotExist <=> ~Created(x))]_vars

\* ---------------------------------------------------------------- C25
\* C25: with a committee that signs an opening (handle, clear) only when clear
\* is the plaintext of the handle, in every reachable state the
\* decryptedAmount of every verified record is the plaintext of the handle the
\* record holds.
C25_DisclosedIsPlaintext ==
    \A x \in Ids :
        debtRecords[x].isVerified
            => debtRecords[x].decryptedAmount = Plain(debtRecords[x].encryptedAmount)

\* A record whose handle encrypts 0 was verified, by a call that presented the
\* committee's opening of that handle.
C25_Witness ==
    /\ lastCall.op = "verifyDebtAmount"
    /\ lastCall.result = "ok"
    /\ debtRecords[lastCall.args.debtId].isVerified
    /\ debtRecords[lastCall.args.debtId].encryptedAmount = 1
    /\ lastCall.args.decryptionProof.cts = 1

\* ---------------------------------------------------------------- C26
\* C26: a successful verifyDebtAmount(x, ...) changes isVerified and
\* decryptedAmount of record x and nothing else: the other fields of record x,
\* all the other records and debtIds are as before the call.
C26_VerifyFrame ==
    [][\A x \in Ids :
        (CallIs("verifyDebtAmount", x) /\ lastCall'.result = "ok")
            => /\ debtRecords' =
                    [debtRecords EXCEPT ![x].isVerified = debtRecords'[x].isVerified,
                                        ![x].decryptedAmount = debtRecords'[x].decryptedAmount]
               /\ debtIds' = debtIds]_vars

\* A record was verified while another record was stored beside it.
C26_Witness ==
    /\ lastCall.op = "verifyDebtAmount"
    /\ lastCall.result = "ok"
    /\ \E y \in Ids : y # lastCall.args.debtId /\ HasRecord(y)
    /\ debtRecords[lastCall.args.debtId].owner # ZeroAddress

\* ---------------------------------------------------------------- C27
\* The records and the id list, the part of the state the two writers act on.
Registry == [records |-> debtRecords, ids |-> debtIds]

\* Result of createDebtRecord on the mapping records: lines 33-34.
createDebtRecordResult(records, debtId, encryptedAmount, inputProof) ==
    IF recordExistsIn(records, debtId) THEN ErrExists
    ELSE createDebtRecordAdmission(encryptedAmount, inputProof)

\* Registry after createDebtRecord in a block of the given timestamp: lines
\* 36-49, or the registry as it was when the call reverts.
createDebtRecordEffect(reg, sender, debtId, encryptedAmount, inputProof, interestRate, termMonths, timestamp) ==
    IF createDebtRecordResult(reg.records, debtId, encryptedAmount, inputProof) = "ok"
    THEN [records |-> [reg.records EXCEPT ![debtId] =
                          newDebtRecord(sender, debtId,
                                        fromExternal(encryptedAmount, inputProof),
                                        interestRate, termMonths, timestamp)],
          ids |-> Append(reg.ids, debtId)]
    ELSE reg

\* Result of verifyDebtAmount on the mapping records: lines 59-66.
verifyDebtAmountResult(records, debtId, abiEncodedClearAmount, decryptionProof) ==
    IF ~recordExistsIn(records, debtId) THEN ErrNotExist
    ELSE IF records[debtId].isVerified THEN ErrVerified
    ELSE IF ~checkSignatures(records[debtId].encryptedAmount, abiEncodedClearAmount,
                             decryptionProof) THEN ErrSignatures
    ELSE IF ~abiDecodeOk(abiEncodedClearAmount) THEN ErrDecode
    ELSE "ok"

\* Registry after verifyDebtAmount: lines 68-69, or the registry as it was.
verifyDebtAmountEffect(reg, debtId, abiEncodedClearAmount, decryptionProof) ==
    IF verifyDebtAmountResult(reg.records, debtId, abiEncodedClearAmount, decryptionProof)
          = "ok"
    THEN [reg EXCEPT !.records = verifiedRecords(reg.records, debtId,
                                                 abiDecodeUint32(abiEncodedClearAmount))]
    ELSE reg

\* The two operators above are the calls the contract makes: every
\* createDebtRecord and every verifyDebtAmount step has that result and that
\* effect on the registry.
WritersAreFunctions ==
    \A x \in DOMAIN debtRecords :
        /\ CallIs("verifyDebtAmount", x)
            => /\ lastCall'.result =
                    verifyDebtAmountResult(debtRecords, x, lastCall'.args.abiEncodedClearAmount,
                                           lastCall'.args.decryptionProof)
               /\ Registry' =
                    verifyDebtAmountEffect(Registry, x, lastCall'.args.abiEncodedClearAmount,
                                           lastCall'.args.decryptionProof)
        /\ CallIs("createDebtRecord", x)
            => /\ lastCall'.result =
                    createDebtRecordResult(debtRecords, x, lastCall'.args.encryptedAmount,
                                           lastCall'.args.inputProof)
               /\ Registry' =
                    createDebtRecordEffect(Registry, lastCall'.args.sender, x,
                                           lastCall'.args.encryptedAmount,
                                           lastCall'.args.inputProof,
                                           lastCall'.args.interestRate,
                                           lastCall'.args.termMonths, blockTimestamp')

\* verifyDebtAmount(x, cx, px) and verifyDebtAmount(y, cy, py) from the
\* registry reg: same two results and same final registry in either order.
VerifyVerifyCommute(reg, x, cx, px, y, cy, py) ==
    LET afterX == verifyDebtAmountEffect(reg, x, cx, px)
        afterY == verifyDebtAmountEffect(reg, y, cy, py)
    IN  /\ verifyDebtAmountResult(reg.records, x, cx, px)
             = verifyDebtAmountResult(afterY.records, x, cx, px)
        /\ verifyDebtAmountResult(reg.records, y, cy, py)
             = verifyDebtAmountResult(afterX.records, y, cy, py)
        /\ verifyDebtAmountEffect(afterX, y, cy, py) = verifyDebtAmountEffect(afterY, x, cx, px)

\* createDebtRecord(x, h, ip) by sender and verifyDebtAmount(y, cy, py) from the
\* registry reg: same two results and same final registry in either order.
CreateVerifyCommute(reg, sender, x, h, ip, y, cy, py) ==
    LET afterX == createDebtRecordEffect(reg, sender, x, h, ip, 12, 24, blockTimestamp)
        afterY == verifyDebtAmountEffect(reg, y, cy, py)
    IN  /\ createDebtRecordResult(reg.records, x, h, ip)
             = createDebtRecordResult(afterY.records, x, h, ip)
        /\ verifyDebtAmountResult(reg.records, y, cy, py)
             = verifyDebtAmountResult(afterX.records, y, cy, py)
        /\ verifyDebtAmountEffect(afterX, y, cy, py)
             = createDebtRecordEffect(afterY, sender, x, h, ip, 12, 24, blockTimestamp)

\* C27: from every reachable state and for every two distinct ids x and y,
\* verifyDebtAmount(x, ...) and verifyDebtAmount(y, ...), and
\* createDebtRecord(x, ...) and verifyDebtAmount(y, ...), give the same results
\* and the same final records and id list in either order.
C27_DistinctIdsIndependent ==
    /\ [](\A x \in DOMAIN debtRecords : \A y \in DOMAIN debtRecords \ {x} :
            \A cy \in ClearWords, py \in DecryptionProofs :
                /\ \A cx \in ClearWords, px \in DecryptionProofs :
                        VerifyVerifyCommute(Registry, x, cx, px, y, cy, py)
                /\ \A sender \in Principals, h \in Handles, ip \in InputProofs :
                        CreateVerifyCommute(Registry, sender, x, h, ip, y, cy, py))
    /\ [][WritersAreFunctions]_vars

\* Two records under distinct non-empty ids hold the same ciphertext; one was
\* just verified and the other is still to be verified.
C27_Witness ==
    /\ lastCall.op = "verifyDebtAmount"
    /\ lastCall.result = "ok"
    /\ \E y \in DOMAIN debtRecords \ {lastCall.args.debtId} :
          /\ recordExistsIn(debtRecords, y)
          /\ ~debtRecords[y].isVerified
          /\ debtRecords[y].encryptedAmount
                = debtRecords[lastCall.args.debtId].encryptedAmount

\* ---------------------------------------------------------------- C28
\* The event log after a verifyDebtAmount of the given result.
verifyDebtAmountLog(log, result, debtId, abiEncodedClearAmount) ==
    IF result = "ok"
    THEN Append(log, [name |-> "DebtVerification", debtId |-> debtId,
                      decryptedAmount |-> abiDecodeUint32(abiEncodedClearAmount)])
    ELSE log

\* verifyDebtAmount(x, c, p) called by sender ends with the given result,
\* registry and event log, and with the backend's ACL and the clock as they
\* are.
VerifyBySenderGives(sender, x, c, p, result, reg, log) ==
    /\ verifyDebtAmount(sender, x, c, p)
    /\ lastCall'.result = result
    /\ debtRecords' = reg.records
    /\ debtIds' = reg.ids
    /\ events' = log
    /\ UNCHANGED <<aclAllowed, publiclyDecryptable, blockTimestamp>>

\* C28: in every reachable state and for every id, cleartext and proof, the
\* result and the state after verifyDebtAmount are those computed from the
\* records, the id, the cleartext and the proof alone, whoever the caller is:
\* the record's owner and every other principal get the same.
C28_CallerIndependent ==
    \A x \in Ids, c \in ClearWords, p \in DecryptionProofs :
        LET result == verifyDebtAmountResult(debtRecords, x, c, p)
            reg == verifyDebtAmountEffect(Registry, x, c, p)
            log == verifyDebtAmountLog(events, result, x, c)
        IN  \A sender \in Principals :
                ENABLED VerifyBySenderGives(sender, x, c, p, result, reg, log)

\* A record was verified by a principal who is not its owner.
C28_Witness ==
    /\ lastCall.op = "verifyDebtAmount"
    /\ lastCall.result = "ok"
    /\ debtRecords[lastCall.args.debtId].owner \in Principals \ {lastCall.args.sender}

====
